---- MODULE Spec2Model ----
(***************************************************************************)
(* A model of cygraph's graph representation engine (cygraph/graph.pyx):   *)
(* the Graph base class, the matrix-backed StaticGraph and the list-backed *)
(* DynamicGraph, and the factory of the package's __init__.                *)
(*                                                                         *)
(* A graph object is a record; every method is an operator from a graph    *)
(* (and its arguments) to the graph after the call together with the       *)
(* call's outcome.  Positions are 1-based here and 0-based in the source.  *)
(* graph.pyx carries no compiler directive, so indexing the typed          *)
(* memoryview outside its shape raises IndexError (boundscheck is on).     *)
(***************************************************************************)
EXTENDS Integers, Sequences, FiniteSets, TLC

\* ------------------------------------------------------------------ bounds
MaxVertex == 2

MaxWeight == 2

MaxOps == 2

\* --------------------------------------------------------------- constants
\* The "no edge" sentinel: np.nan in StaticGraph, None in DynamicGraph.
None == 0

\* The default of add_edge's weight parameter (1.0).
DefaultWeight == 1

Vertex == 1..MaxVertex

Weight == 1..MaxWeight

AttrKeys == {"k"}

AttrVals == {"x"}

\* An empty dict.
EmptyDict == [x \in {} |-> None]

\* d[k] = x on a dict.
DictSet(d, k, x) == [y \in (DOMAIN d) \cup {k} |-> IF y = k THEN x ELSE d[y]]

\* list.index(v): the first position holding v, 0 when there is none.
ListIndex(s, v) ==
  IF \E i \in 1..Len(s) : s[i] = v
  THEN CHOOSE i \in 1..Len(s) : s[i] = v /\ \A j \in 1..(i - 1) : s[j] # v
  ELSE 0

\* list.pop(i) / list.remove: the list without position i.
ListPop(s, i) == SubSeq(s, 1, i - 1) \o SubSeq(s, i + 1, Len(s))

\* np.full((size, size), np.nan) and the nested loops of DynamicGraph.
FullMatrix(size) == [i \in 1..size |-> [j \in 1..size |-> None]]

\* Whether cell (u, v) lies inside the shape of matrix M.
InBounds(M, u, v) == u >= 1 /\ u <= Len(M) /\ v >= 1 /\ v <= Len(M[u])

\* M[u][v] = x
MatrixSet(M, u, v, x) == [M EXCEPT ![u][v] = x]

\* The storage that edge operations and queries index: the memoryview
\* _adjacency_matrix_view in StaticGraph, _adjacency_matrix in DynamicGraph.
Storage(G) == IF G.backend = "static" THEN G.view ELSE G.adj

\* A write of cell (u, v) through the storage.  StaticGraph's view shares
\* its buffer with _adjacency_matrix until add_vertex rebinds the latter.
StorageSet(G, u, v, x) ==
  IF G.backend = "static"
  THEN [G EXCEPT !.view = MatrixSet(G.view, u, v, x),
                 !.adj = IF G.aliased THEN MatrixSet(G.view, u, v, x) ELSE G.adj]
  ELSE [G EXCEPT !.adj = MatrixSet(G.adj, u, v, x)]

\* The outcome of a call: the graph afterwards and how the call ended.
Outcome(G, r) == [g |-> G, res |-> r]

\* ------------------------------------------------------------ construction
\* StaticGraph(directed=..., vertices=...) / DynamicGraph(...) without a
\* source graph.
NewGraph(static, directed, vertices) ==
  [backend  |-> IF static THEN "static" ELSE "dynamic",
   directed |-> directed,
   vertices |-> vertices,
   vattr    |-> [v \in {vertices[i] : i \in 1..Len(vertices)} |-> EmptyDict],
   eattr    |-> EmptyDict,
   adj      |-> FullMatrix(Len(vertices)),
   view     |-> IF static THEN FullMatrix(Len(vertices)) ELSE <<>>,
   aliased  |-> static]

\* ------------------------------------------------------------------- Graph
\* Graph._get_vertex_int: the position of a vertex, 0 standing for the
\* ValueError it raises.
_get_vertex_int(G, vertex) == ListIndex(G.vertices, vertex)

has_vertex(G, vertex) == \E i \in 1..Len(G.vertices) : G.vertices[i] = vertex

set_vertex_attribute(G, vertex, key, val) ==
  IF vertex \in DOMAIN G.vattr
  THEN Outcome([G EXCEPT !.vattr[vertex] = DictSet(G.vattr[vertex], key, val)], "ok")
  ELSE Outcome(G, "UnknownVertex")

get_vertex_attribute(G, vertex, key) ==
  IF vertex \notin DOMAIN G.vattr THEN [res |-> "UnknownVertex", val |-> None]
  ELSE IF key \notin DOMAIN G.vattr[vertex] THEN [res |-> "KeyError", val |-> None]
  ELSE [res |-> "ok", val |-> G.vattr[vertex][key]]

set_edge_attribute(G, edge, key, val) ==
  LET rev == <<edge[2], edge[1]>> IN
  IF edge \in DOMAIN G.eattr
  THEN Outcome([G EXCEPT !.eattr[edge] = DictSet(G.eattr[edge], key, val)], "ok")
  ELSE IF G.directed THEN Outcome(G, "UnknownEdge")
  ELSE IF rev \in DOMAIN G.eattr
  THEN Outcome([G EXCEPT !.eattr[rev] = DictSet(G.eattr[rev], key, val)], "ok")
  ELSE Outcome(G, "UnknownEdge")

get_edge_attribute(G, edge, key) ==
  LET rev == <<edge[2], edge[1]>>
      found == IF edge \in DOMAIN G.eattr THEN edge
               ELSE IF ~G.directed /\ rev \in DOMAIN G.eattr THEN rev
               ELSE <<>>
  IN IF found = <<>> THEN [res |-> "UnknownEdge", val |-> None]
     ELSE IF key \notin DOMAIN G.eattr[found] THEN [res |-> "KeyError", val |-> None]
     ELSE [res |-> "ok", val |-> G.eattr[found][key]]

\* ------------------------------------------------------------- StaticGraph
\* StaticGraph.add_edge creating the attribute entry before it resolves the
\* endpoints.
StaticGraph_add_edge_EntryFirst(G, v1, v2, weight) ==
  LET u == _get_vertex_int(G, v1)
      v == _get_vertex_int(G, v2)
      G1 == [G EXCEPT !.eattr = DictSet(G.eattr, <<v1, v2>>, EmptyDict)]
      G2 == StorageSet(G1, u, v, weight)
  IN IF u = 0 \/ v = 0 THEN Outcome(G1, "UnknownVertex")
     ELSE IF ~InBounds(G.view, u, v) THEN Outcome(G1, "IndexError")
     ELSE IF G.directed THEN Outcome(G2, "ok")
     ELSE IF ~InBounds(G.view, v, u) THEN Outcome(G2, "IndexError")
     ELSE Outcome(StorageSet(G2, v, u, weight), "ok")

StaticGraph_add_edge(G, v1, v2, weight) ==
  LET u == _get_vertex_int(G, v1)
      v == _get_vertex_int(G, v2)
      G1 == [G EXCEPT !.eattr = DictSet(G.eattr, <<v1, v2>>, EmptyDict)]
      G2 == StorageSet(G1, u, v, weight)
  IN IF u = 0 \/ v = 0 THEN Outcome(G, "UnknownVertex")
     ELSE IF ~InBounds(G.view, u, v) THEN Outcome(G1, "IndexError")
     ELSE IF G.directed THEN Outcome(G2, "ok")
     ELSE IF ~InBounds(G.view, v, u) THEN Outcome(G2, "IndexError")
     ELSE Outcome(StorageSet(G2, v, u, weight), "ok")

\* StaticGraph.remove_edge raising on an absent edge instead of warning.
StaticGraph_remove_edge_Raising(G, v1, v2) ==
  LET u == _get_vertex_int(G, v1)
      v == _get_vertex_int(G, v2)
      G1 == StorageSet(G, u, v, None)
  IN IF u = 0 \/ v = 0 THEN Outcome(G, "UnknownVertex")
     ELSE IF ~InBounds(G.view, u, v) THEN Outcome(G, "IndexError")
     ELSE IF G.view[u][v] = None THEN Outcome(G, "UnknownEdge")
     ELSE IF G.directed THEN Outcome(G1, "ok")
     ELSE IF ~InBounds(G.view, v, u) THEN Outcome(G1, "IndexError")
     ELSE Outcome(StorageSet(G1, v, u, None), "ok")

StaticGraph_remove_edge(G, v1, v2) ==
  LET u == _get_vertex_int(G, v1)
      v == _get_vertex_int(G, v2)
      G1 == StorageSet(G, u, v, None)
  IN IF u = 0 \/ v = 0 THEN Outcome(G, "UnknownVertex")
     ELSE IF ~InBounds(G.view, u, v) THEN Outcome(G, "IndexError")
     ELSE IF G.view[u][v] = None THEN Outcome(G, "warning")
     ELSE IF G.directed THEN Outcome(G1, "ok")
     ELSE IF ~InBounds(G.view, v, u) THEN Outcome(G1, "IndexError")
     ELSE Outcome(StorageSet(G1, v, u, None), "ok")

StaticGraph_has_edge(G, v1, v2) ==
  LET u == ListIndex(G.vertices, v1)
      v == ListIndex(G.vertices, v2)
  IN IF u = 0 \/ v = 0 THEN [res |-> "ok", val |-> FALSE]
     ELSE IF ~InBounds(G.view, u, v) THEN [res |-> "IndexError", val |-> FALSE]
     ELSE [res |-> "ok", val |-> G.view[u][v] # None]

StaticGraph_get_edge_weight(G, v1, v2) ==
  LET u == _get_vertex_int(G, v1)
      v == _get_vertex_int(G, v2)
  IN IF u = 0 \/ v = 0 THEN [res |-> "UnknownVertex", val |-> None]
     ELSE IF ~InBounds(G.view, u, v) THEN [res |-> "IndexError", val |-> None]
     ELSE IF G.view[u][v] # None THEN [res |-> "ok", val |-> G.view[u][v]]
     ELSE [res |-> "UnknownEdge", val |-> None]

\* np.append(..., axis=0) then np.append(..., axis=1) on _adjacency_matrix;
\* numpy rejects a row or column whose length does not fit the matrix.
\* The memoryview is not rebound.
StaticGraph_add_vertex(G, v) ==
  LET vertex_number == Len(G.vertices)
      G1 == [G EXCEPT !.vattr = DictSet(G.vattr, v, EmptyDict)]
      G2 == [G1 EXCEPT !.vertices = Append(G.vertices, v)]
      fits == /\ \A i \in 1..Len(G.adj) : Len(G.adj[i]) = vertex_number
              /\ Len(G.adj) = vertex_number
      grown == [i \in 1..(vertex_number + 1) |->
                  IF i <= vertex_number THEN Append(G.adj[i], None)
                  ELSE [j \in 1..(vertex_number + 1) |-> None]]
  IN IF has_vertex(G, v) THEN Outcome(G1, "DuplicateVertex")
     ELSE IF vertex_number = 0
     THEN Outcome([G2 EXCEPT !.adj = FullMatrix(1), !.aliased = FALSE], "ok")
     ELSE IF ~fits THEN Outcome(G2, "ShapeError")
     ELSE Outcome([G2 EXCEPT !.adj = grown, !.aliased = FALSE], "ok")

\* The two np.delete calls return new arrays that are dropped.
StaticGraph_remove_vertex(G, v) ==
  LET u == _get_vertex_int(G, v)
      G1 == [G EXCEPT !.vertices = ListPop(G.vertices, u)]
  IN IF u = 0 THEN Outcome(G, "UnknownVertex")
     ELSE IF u > Len(G.adj) THEN Outcome(G1, "IndexError")
     ELSE Outcome(G1, "ok")

StaticGraph_get_children(G, v) ==
  LET w == _get_vertex_int(G, v)
      n == Len(G.vertices)
  IN IF w = 0 THEN [res |-> "UnknownVertex", val |-> {}]
     ELSE IF \E u \in 1..n : ~InBounds(G.view, w, u) THEN [res |-> "IndexError", val |-> {}]
     ELSE [res |-> "ok", val |-> {G.vertices[u] : u \in {x \in 1..n : G.view[w][x] # None}}]

StaticGraph_get_parents(G, v) ==
  LET w == _get_vertex_int(G, v)
      n == Len(G.vertices)
  IN IF w = 0 THEN [res |-> "UnknownVertex", val |-> {}]
     ELSE IF \E u \in 1..n : ~InBounds(G.view, u, w) THEN [res |-> "IndexError", val |-> {}]
     ELSE [res |-> "ok", val |-> {G.vertices[u] : u \in {x \in 1..n : G.view[x][w] # None}}]

\* ------------------------------------------------------------ DynamicGraph
\* DynamicGraph.add_edge without the write of the reverse cell.
DynamicGraph_add_edge_OneWay(G, v1, v2, weight) ==
  LET u == _get_vertex_int(G, v1)
      v == _get_vertex_int(G, v2)
      G1 == [G EXCEPT !.eattr = DictSet(G.eattr, <<v1, v2>>, EmptyDict)]
  IN IF u = 0 \/ v = 0 THEN Outcome(G, "UnknownVertex")
     ELSE IF ~InBounds(G.adj, u, v) THEN Outcome(G1, "IndexError")
     ELSE Outcome(StorageSet(G1, u, v, weight), "ok")

DynamicGraph_add_edge(G, v1, v2, weight) ==
  LET u == _get_vertex_int(G, v1)
      v == _get_vertex_int(G, v2)
      G1 == [G EXCEPT !.eattr = DictSet(G.eattr, <<v1, v2>>, EmptyDict)]
      G2 == StorageSet(G1, u, v, weight)
  IN IF u = 0 \/ v = 0 THEN Outcome(G, "UnknownVertex")
     ELSE IF ~InBounds(G.adj, u, v) THEN Outcome(G1, "IndexError")
     ELSE IF G.directed THEN Outcome(G2, "ok")
     ELSE IF ~InBounds(G.adj, v, u) THEN Outcome(G2, "IndexError")
     ELSE Outcome(StorageSet(G2, v, u, weight), "ok")

\* DynamicGraph.remove_edge clearing the reverse entry on directed graphs
\* too.
DynamicGraph_remove_edge_BothWays(G, v1, v2) ==
  LET u == _get_vertex_int(G, v1)
      v == _get_vertex_int(G, v2)
      G1 == StorageSet(G, u, v, None)
  IN IF u = 0 \/ v = 0 THEN Outcome(G, "UnknownVertex")
     ELSE IF ~InBounds(G.adj, u, v) THEN Outcome(G, "IndexError")
     ELSE IF G.adj[u][v] = None THEN Outcome(G, "warning")
     ELSE IF ~InBounds(G.adj, v, u) THEN Outcome(G1, "IndexError")
     ELSE Outcome(StorageSet(G1, v, u, None), "ok")

DynamicGraph_remove_edge(G, v1, v2) ==
  LET u == _get_vertex_int(G, v1)
      v == _get_vertex_int(G, v2)
      G1 == StorageSet(G, u, v, None)
  IN IF u = 0 \/ v = 0 THEN Outcome(G, "UnknownVertex")
     ELSE IF ~InBounds(G.adj, u, v) THEN Outcome(G, "IndexError")
     ELSE IF G.adj[u][v] = None THEN Outcome(G, "warning")
     ELSE IF G.directed THEN Outcome(G1, "ok")
     ELSE IF ~InBounds(G.adj, v, u) THEN Outcome(G1, "IndexError")
     ELSE Outcome(StorageSet(G1, v, u, None), "ok")

DynamicGraph_has_edge(G, v1, v2) ==
  LET u == ListIndex(G.vertices, v1)
      v == ListIndex(G.vertices, v2)
  IN IF u = 0 \/ v = 0 THEN [res |-> "ok", val |-> FALSE]
     ELSE IF ~InBounds(G.adj, u, v) THEN [res |-> "IndexError", val |-> FALSE]
     ELSE [res |-> "ok", val |-> G.adj[u][v] # None]

DynamicGraph_get_edge_weight(G, v1, v2) ==
  LET u == _get_vertex_int(G, v1)
      v == _get_vertex_int(G, v2)
  IN IF u = 0 \/ v = 0 THEN [res |-> "UnknownVertex", val |-> None]
     ELSE IF ~InBounds(G.adj, u, v) THEN [res |-> "IndexError", val |-> None]
     ELSE IF G.adj[u][v] # None THEN [res |-> "ok", val |-> G.adj[u][v]]
     ELSE [res |-> "UnknownEdge", val |-> None]

DynamicGraph_add_vertex(G, v) ==
  LET vertex_number == Len(G.vertices)
      G1 == [G EXCEPT !.vattr = DictSet(G.vattr, v, EmptyDict)]
      G2 == [G1 EXCEPT !.vertices = Append(G.vertices, v)]
      new_row == [j \in 1..(vertex_number + 1) |-> None]
      grown == [i \in 1..(Len(G.adj) + 1) |->
                  IF i <= Len(G.adj) THEN Append(G.adj[i], None) ELSE new_row]
  IN IF has_vertex(G, v) THEN Outcome(G1, "DuplicateVertex")
     ELSE Outcome([G2 EXCEPT !.adj = grown], "ok")

DynamicGraph_remove_vertex(G, v) ==
  LET u == _get_vertex_int(G, v)
      G1 == [G EXCEPT !.vertices = ListPop(G.vertices, u)]
      popped == ListPop(G.adj, u)
  IN IF u = 0 THEN Outcome(G, "UnknownVertex")
     ELSE IF u > Len(G.adj) THEN Outcome(G1, "IndexError")
     ELSE IF \E i \in 1..Len(popped) : u > Len(popped[i])
     THEN Outcome([G1 EXCEPT !.adj = popped], "IndexError")
     ELSE Outcome([G1 EXCEPT !.adj = [i \in 1..Len(popped) |-> ListPop(popped[i], u)]], "ok")

DynamicGraph_get_children(G, v) ==
  LET w == _get_vertex_int(G, v)
      n == Len(G.vertices)
  IN IF w = 0 THEN [res |-> "UnknownVertex", val |-> {}]
     ELSE IF \E u \in 1..n : ~InBounds(G.adj, w, u) THEN [res |-> "IndexError", val |-> {}]
     ELSE [res |-> "ok", val |-> {G.vertices[u] : u \in {x \in 1..n : G.adj[w][x] # None}}]

DynamicGraph_get_parents(G, v) ==
  LET w == _get_vertex_int(G, v)
      n == Len(G.vertices)
  IN IF w = 0 THEN [res |-> "UnknownVertex", val |-> {}]
     ELSE IF \E u \in 1..n : ~InBounds(G.adj, u, w) THEN [res |-> "IndexError", val |-> {}]
     ELSE [res |-> "ok", val |-> {G.vertices[u] : u \in {x \in 1..n : G.adj[x][w] # None}}]

\* ------------------------------------------- dispatch on the concrete class
add_edge(G, v1, v2, weight) ==
  IF G.backend = "static" THEN StaticGraph_add_edge(G, v1, v2, weight)
  ELSE DynamicGraph_add_edge(G, v1, v2, weight)

remove_edge(G, v1, v2) ==
  IF G.backend = "static" THEN StaticGraph_remove_edge(G, v1, v2)
  ELSE DynamicGraph_remove_edge(G, v1, v2)

has_edge(G, v1, v2) ==
  IF G.backend = "static" THEN StaticGraph_has_edge(G, v1, v2)
  ELSE DynamicGraph_has_edge(G, v1, v2)

get_edge_weight(G, v1, v2) ==
  IF G.backend = "static" THEN StaticGraph_get_edge_weight(G, v1, v2)
  ELSE DynamicGraph_get_edge_weight(G, v1, v2)

add_vertex(G, v) ==
  IF G.backend = "static" THEN StaticGraph_add_vertex(G, v)
  ELSE DynamicGraph_add_vertex(G, v)

remove_vertex(G, v) ==
  IF G.backend = "static" THEN StaticGraph_remove_vertex(G, v)
  ELSE DynamicGraph_remove_vertex(G, v)

get_children(G, v) ==
  IF G.backend = "static" THEN StaticGraph_get_children(G, v)
  ELSE DynamicGraph_get_children(G, v)

get_parents(G, v) ==
  IF G.backend = "static" THEN StaticGraph_get_parents(G, v)
  ELSE DynamicGraph_get_parents(G, v)

\* ------------------------------------------------------------------- edges
\* The `edges` property of both classes: a row-major scan of the storage
\* over range(len(vertices)); on an undirected graph a triple is skipped
\* when the reversed pair is already in the result.
RECURSIVE edges_scan(_, _, _, _)
edges_scan(G, u, v, found) ==
  LET n_vertices == Len(G.vertices)
      edge_weight == Storage(G)[u][v]
      new_edge == <<G.vertices[u], G.vertices[v], edge_weight>>
      edge_found == \E existing_edge \in found :
                      existing_edge[1] = new_edge[2] /\ existing_edge[2] = new_edge[1]
  IN IF u > n_vertices THEN [res |-> "ok", val |-> found]
     ELSE IF v > n_vertices THEN edges_scan(G, u + 1, 1, found)
     ELSE IF ~InBounds(Storage(G), u, v) THEN [res |-> "IndexError", val |-> {}]
     ELSE IF edge_weight = None THEN edges_scan(G, u, v + 1, found)
     ELSE IF G.directed THEN edges_scan(G, u, v + 1, found \cup {new_edge})
     ELSE IF edge_found THEN edges_scan(G, u, v + 1, found)
     ELSE edges_scan(G, u, v + 1, found \cup {new_edge})

edges(G) == edges_scan(G, 1, 1, {})

\* ----------------------------------------------------------------- cloning
\* No graph object (Python's None, or a constructor that raised).
NoGraph == [backend |-> "none"]

\* The loop `for edge in graph.edges: self.add_edge(edge[0], edge[1])` of
\* both __cinit__ methods; the weight argument is left to its default.
RECURSIVE add_edges_of(_, _)
add_edges_of(G, es) ==
  IF es = {} THEN Outcome(G, "ok")
  ELSE LET edge == CHOOSE e \in es : TRUE
           r == add_edge(G, edge[1], edge[2], DefaultWeight)
       IN IF r.res # "ok" THEN Outcome(NoGraph, r.res)
          ELSE add_edges_of(r.g, es \ {edge})

\* Graph.__cinit__ with a source graph, followed by the `graph is not None`
\* branch of StaticGraph.__cinit__ / DynamicGraph.__cinit__.
CloneGraph(static, graph_) ==
  LET size == Len(graph_.vertices)
      copied == [backend  |-> IF static THEN "static" ELSE "dynamic",
                 directed |-> graph_.directed,
                 vertices |-> graph_.vertices,
                 vattr    |-> graph_.vattr,
                 eattr    |-> graph_.eattr,
                 adj      |-> FullMatrix(size),
                 view     |-> IF static THEN FullMatrix(size) ELSE <<>>,
                 aliased  |-> static]
      source_edges == edges(graph_)
  IN IF source_edges.res # "ok" THEN Outcome(NoGraph, source_edges.res)
     ELSE add_edges_of(copied, source_edges.val)

\* copy.deepcopy(d) of an attribute store: the dict objects the copy has in
\* common with d, as references <<store, key>> to the per-entity dicts.
deepcopy_shared(store, d) == {}

\* As CloneShared, with the stores copied one level deep (dict(d)): the
\* per-entity dicts are the source's own.
CloneShared_Shallow(graph_) ==
  {<<"vattr", v>> : v \in DOMAIN graph_.vattr}
    \cup {<<"eattr", e>> : e \in DOMAIN graph_.eattr}

\* The attribute dicts a graph constructed from graph_ has in common with
\* graph_ (Graph.__cinit__ deep-copies both stores).
CloneShared(graph_) ==
  deepcopy_shared("vattr", graph_.vattr) \cup deepcopy_shared("eattr", graph_.eattr)

\* The references an operation rebinds to a fresh dict in the graph it is
\* called on: add_vertex assigns _vertex_attributes[v] = {} before its
\* duplicate check, add_edge assigns _edge_attributes[(v1, v2)] = {} once
\* both endpoints are resolved.
Rebound(op, a, b, res) ==
  IF op = "add_vertex" THEN {<<"vattr", a>>}
  ELSE IF op = "add_edge" /\ res # "UnknownVertex" THEN {<<"eattr", <<a, b>>>>}
  ELSE {}

\* Graph `other` as seen once the graph it shares the dicts `sh` with has
\* become `after`: a shared dict shows the same content in both.
Sync(other, after, sh) ==
  IF other = [backend |-> "none"] THEN other
  ELSE [other EXCEPT
          !.vattr = [v \in DOMAIN other.vattr |->
                       IF <<"vattr", v>> \in sh /\ v \in DOMAIN after.vattr
                       THEN after.vattr[v] ELSE other.vattr[v]],
          !.eattr = [e \in DOMAIN other.eattr |->
                       IF <<"eattr", e>> \in sh /\ e \in DOMAIN after.eattr
                       THEN after.eattr[e] ELSE other.eattr[e]]]

\* The factory with `directed` applied to the result even when a source
\* graph is given.
graph_DirectedApplied(static, graph_, directed, vertices) ==
  IF graph_ = NoGraph THEN Outcome(NewGraph(static, directed, vertices), "ok")
  ELSE LET r == CloneGraph(static, graph_) IN
       IF r.res = "ok" THEN Outcome([r.g EXCEPT !.directed = directed], "ok") ELSE r

\* The factory cygraph.graph(static, graph_, directed, vertices).
graph(static, graph_, directed, vertices) ==
  IF graph_ = NoGraph THEN Outcome(NewGraph(static, directed, vertices), "ok")
  ELSE CloneGraph(static, graph_)

\* ---------------------------------------------------------------- __copy__
\* The loop `for key in self._edge_attributes[edge]:
\* new_graph.set_edge_attribute(edge, key, ...)` of __copy__.
RECURSIVE copy_edge_keys(_, _, _, _)
copy_edge_keys(new_graph, edge, d, keys) ==
  IF keys = {} THEN Outcome(new_graph, "ok")
  ELSE LET key == CHOOSE k \in keys : TRUE
           r == set_edge_attribute(new_graph, edge, key, d[key])
       IN IF r.res # "ok" THEN Outcome(NoGraph, r.res)
          ELSE copy_edge_keys(r.g, edge, d, keys \ {key})

\* The loop `for edge in self.edges` of __copy__: edge is the triple
\* (v1, v2, weight) that `edges` yields; it is unpacked into add_edge and
\* then used as it is to index self._edge_attributes, whose keys are pairs.
RECURSIVE copy_edges(_, _, _)
copy_edges(new_graph, G, es) ==
  IF es = {} THEN Outcome(new_graph, "ok")
  ELSE LET edge == CHOOSE e \in es : TRUE
           r == add_edge(new_graph, edge[1], edge[2], edge[3])
       IN IF r.res # "ok" THEN Outcome(NoGraph, r.res)
          ELSE IF edge \notin DOMAIN G.eattr THEN Outcome(NoGraph, "KeyError")
          ELSE LET k == copy_edge_keys(r.g, edge, G.eattr[edge], DOMAIN G.eattr[edge])
               IN IF k.res # "ok" THEN k
                  ELSE copy_edges(k.g, G, es \ {edge})

\* The loop `for vertex in self.vertices` of __copy__: the first vertex
\* with an attribute reaches the call of new_graph.set_vertex_attribtue, a
\* method the class does not have.
copy_vertex_attributes(new_graph, G) ==
  LET n == Len(G.vertices)
      stops == {i \in 1..n : \/ G.vertices[i] \notin DOMAIN G.vattr
                             \/ DOMAIN G.vattr[G.vertices[i]] # {}}
      first == CHOOSE i \in stops : \A j \in stops : i <= j
  IN IF stops = {} THEN Outcome(new_graph, "ok")
     ELSE IF G.vertices[first] \notin DOMAIN G.vattr THEN Outcome(NoGraph, "KeyError")
     ELSE Outcome(NoGraph, "AttributeError")

\* StaticGraph.__copy__ / DynamicGraph.__copy__.
copy(G) ==
  LET new_graph == NewGraph(G.backend = "static", G.directed, G.vertices)
      self_edges == edges(G)
      with_edges == copy_edges(new_graph, G, self_edges.val)
  IN IF self_edges.res # "ok" THEN Outcome(NoGraph, self_edges.res)
     ELSE IF with_edges.res # "ok" THEN with_edges
     ELSE copy_vertex_attributes(with_edges.g, G)

\* ----------------------------------------------------------- state machine
VARIABLES
  g,      \* the graph object under test
  c,      \* the latest graph cloned from g, NoGraph when there is none
  last,   \* the latest call on g: its name, arguments and outcome
  prev,   \* g as it was immediately before that call
  nops,   \* the number of calls made
  shared  \* the attribute dicts that g and c have in common

vars == <<g, c, last, prev, nops, shared>>

Call(op, a, b, w, res) == [op |-> op, a |-> a, b |-> b, w |-> w, res |-> res]

\* The vertex lists graphs are constructed with: list(range(1, n + 1)).
InitVertices == {[i \in 1..n |-> i] : n \in 0..MaxVertex}

Init ==
  /\ \E static \in BOOLEAN, directed \in BOOLEAN, vertices \in InitVertices :
       g = graph(static, NoGraph, directed, vertices).g
  /\ c = NoGraph
  /\ last = Call("init", 0, 0, 0, "ok")
  /\ prev = g
  /\ nops = 0
  /\ shared = {}

AddVertex ==
  \E v \in Vertex :
    LET r == add_vertex(g, v) IN
    /\ nops < MaxOps
    /\ g' = r.g
    /\ last' = Call("add_vertex", v, 0, 0, r.res)
    /\ prev' = g
    /\ nops' = nops + 1
    /\ shared' = shared \ Rebound("add_vertex", v, 0, r.res)
    /\ c' = Sync(c, r.g, shared')

RemoveVertex ==
  \E v \in Vertex :
    LET r == remove_vertex(g, v) IN
    /\ nops < MaxOps
    /\ g' = r.g
    /\ last' = Call("remove_vertex", v, 0, 0, r.res)
    /\ prev' = g
    /\ nops' = nops + 1
    /\ shared' = shared \ Rebound("remove_vertex", v, 0, r.res)
    /\ c' = Sync(c, r.g, shared')

AddEdge ==
  \E v1 \in Vertex, v2 \in Vertex, w \in Weight :
    LET r == add_edge(g, v1, v2, w) IN
    /\ nops < MaxOps
    /\ g' = r.g
    /\ last' = Call("add_edge", v1, v2, w, r.res)
    /\ prev' = g
    /\ nops' = nops + 1
    /\ shared' = shared \ Rebound("add_edge", v1, v2, r.res)
    /\ c' = Sync(c, r.g, shared')

RemoveEdge ==
  \E v1 \in Vertex, v2 \in Vertex :
    LET r == remove_edge(g, v1, v2) IN
    /\ nops < MaxOps
    /\ g' = r.g
    /\ last' = Call("remove_edge", v1, v2, 0, r.res)
    /\ prev' = g
    /\ nops' = nops + 1
    /\ shared' = shared \ Rebound("remove_edge", v1, v2, r.res)
    /\ c' = Sync(c, r.g, shared')

SetVertexAttribute ==
  \E v \in Vertex, key \in AttrKeys, val \in AttrVals :
    LET r == set_vertex_attribute(g, v, key, val) IN
    /\ nops < MaxOps
    /\ g' = r.g
    /\ last' = Call("set_vertex_attribute", v, 0, 0, r.res)
    /\ prev' = g
    /\ nops' = nops + 1
    /\ shared' = shared \ Rebound("set_vertex_attribute", v, 0, r.res)
    /\ c' = Sync(c, r.g, shared')

SetEdgeAttribute ==
  \E v1 \in Vertex, v2 \in Vertex, key \in AttrKeys, val \in AttrVals :
    LET r == set_edge_attribute(g, <<v1, v2>>, key, val) IN
    /\ nops < MaxOps
    /\ g' = r.g
    /\ last' = Call("set_edge_attribute", v1, v2, 0, r.res)
    /\ prev' = g
    /\ nops' = nops + 1
    /\ shared' = shared \ Rebound("set_edge_attribute", v1, v2, r.res)
    /\ c' = Sync(c, r.g, shared')

\* c = cygraph.graph(static=static, graph_=g)
Clone ==
  \E static \in BOOLEAN :
    LET r == graph(static, g, FALSE, <<>>) IN
    /\ nops < MaxOps
    /\ c' = r.g
    /\ last' = Call("clone", 0, 0, 0, r.res)
    /\ prev' = g
    /\ nops' = nops + 1
    /\ shared' = IF r.res = "ok" THEN CloneShared(g) ELSE {}
    /\ UNCHANGED g

\* c = copy.copy(g)
Copy ==
  LET r == copy(g) IN
  /\ nops < MaxOps
  /\ c' = r.g
  /\ last' = Call("copy", 0, 0, 0, r.res)
  /\ prev' = g
  /\ nops' = nops + 1
  /\ shared' = {}
  /\ UNCHANGED g

\* The mutating calls, as [op, a, b, w]: the method and its vertex and
\* weight arguments.
Mutations ==
  [op : {"add_vertex", "remove_vertex"}, a : Vertex, b : {0}, w : {0}]
    \cup [op : {"add_edge"}, a : Vertex, b : Vertex, w : Weight]
    \cup [op : {"remove_edge", "set_edge_attribute"}, a : Vertex, b : Vertex, w : {0}]
    \cup [op : {"set_vertex_attribute"}, a : Vertex, b : {0}, w : {0}]

\* One mutating call m on graph G; attribute calls use the key and value
\* given.
Apply(G, m, key, val) ==
  IF m.op = "add_vertex" THEN add_vertex(G, m.a)
  ELSE IF m.op = "remove_vertex" THEN remove_vertex(G, m.a)
  ELSE IF m.op = "add_edge" THEN add_edge(G, m.a, m.b, m.w)
  ELSE IF m.op = "remove_edge" THEN remove_edge(G, m.a, m.b)
  ELSE IF m.op = "set_vertex_attribute" THEN set_vertex_attribute(G, m.a, key, val)
  ELSE set_edge_attribute(G, <<m.a, m.b>>, key, val)

\* Any mutating call on the clone c.
MutateClone ==
  \E m \in Mutations, key \in AttrKeys, val \in AttrVals :
    LET r == Apply(c, m, key, val) IN
    /\ nops < MaxOps
    /\ c # NoGraph
    /\ c' = r.g
    /\ last' = Call("mutate_clone", m.a, m.b, m.w, r.res)
    /\ prev' = g
    /\ nops' = nops + 1
    /\ shared' = shared \ Rebound(m.op, m.a, m.b, r.res)
    /\ g' = Sync(g, r.g, shared')

Next ==
  \/ AddVertex
  \/ RemoveVertex
  \/ AddEdge
  \/ RemoveEdge
  \/ SetVertexAttribute
  \/ SetEdgeAttribute
  \/ Clone
  \/ Copy
  \/ MutateClone

Spec == Init /\ [][Next]_vars

\* ------------------------------------------- construction from any list
\* Every list a caller may pass as `vertices`, repetitions included.
AnyVertexList == UNION {[1..n -> Vertex] : n \in 0..MaxVertex}

InitAnyList ==
  /\ \E static \in BOOLEAN, directed \in BOOLEAN, vertices \in AnyVertexList :
       g = graph(static, NoGraph, directed, vertices).g
  /\ c = NoGraph
  /\ last = Call("init", 0, 0, 0, "ok")
  /\ prev = g
  /\ nops = 0
  /\ shared = {}

SpecAnyList == InitAnyList /\ [][Next]_vars

\* ------------------------------------------------- the four-vertex example
\* The example of the package docstring: a graph on four vertices, edges
\* added with the default weight, vertices removed.
ScenarioSize == 4

ScenarioOps == 4

ScenarioVertex == 1..ScenarioSize

InitScenario ==
  /\ \E static \in BOOLEAN, directed \in BOOLEAN :
       g = graph(static, NoGraph, directed, [i \in 1..ScenarioSize |-> i]).g
  /\ c = NoGraph
  /\ last = Call("init", 0, 0, 0, "ok")
  /\ prev = g
  /\ nops = 0
  /\ shared = {}

ScenarioAddEdge ==
  \E v1 \in ScenarioVertex, v2 \in ScenarioVertex :
    LET r == add_edge(g, v1, v2, DefaultWeight) IN
    /\ nops < ScenarioOps
    /\ g' = r.g
    /\ last' = Call("add_edge", v1, v2, DefaultWeight, r.res)
    /\ prev' = g
    /\ nops' = nops + 1
    /\ UNCHANGED <<c, shared>>

ScenarioRemoveVertex ==
  \E v \in ScenarioVertex :
    LET r == remove_vertex(g, v) IN
    /\ nops < ScenarioOps
    /\ g' = r.g
    /\ last' = Call("remove_vertex", v, 0, 0, r.res)
    /\ prev' = g
    /\ nops' = nops + 1
    /\ UNCHANGED <<c, shared>>

NextScenario ==
  \/ ScenarioAddEdge
  \/ ScenarioRemoveVertex

SpecScenario == InitScenario /\ [][NextScenario]_vars

\* ------------------------------------------------------------------ claims
\* has_edge(v1, v2) returned True.
HasEdge(G, v1, v2) == has_edge(G, v1, v2) = [res |-> "ok", val |-> TRUE]

\* edge_attributes holds an entry for the edge (v1, v2).
HasEdgeEntry(G, v1, v2) ==
  \/ <<v1, v2>> \in DOMAIN G.eattr
  \/ ~G.directed /\ <<v2, v1>> \in DOMAIN G.eattr

\* The content of a graph object: vertex sequence, adjacency representation
\* and both attribute stores.
Content(G) == <<G.vertices, G.adj, G.view, G.vattr, G.eattr>>

VertexSet(G) == {G.vertices[i] : i \in 1..Len(G.vertices)}

\* C1: in every reachable state an ordered pair (u, v) has a defined
\* adjacency entry iff edge_attributes holds an entry for that edge
\* (either orientation of the key on an undirected graph).
C1_EdgeIffAttributeEntry ==
  \A u \in Vertex, v \in Vertex : HasEdge(g, u, v) <=> HasEdgeEntry(g, u, v)

\* C2: in every reachable state the keys of vertex_attributes are exactly
\* the vertices of the vertex sequence, so setting or getting an attribute
\* of a vertex that is not in the graph fails with the unknown-vertex error.
C2_VertexAttributeKeys ==
  /\ DOMAIN g.vattr = VertexSet(g)
  /\ \A v \in Vertex \ VertexSet(g) : \A key \in AttrKeys, val \in AttrVals :
       /\ set_vertex_attribute(g, v, key, val).res = "UnknownVertex"
       /\ get_vertex_attribute(g, v, key).res = "UnknownVertex"

\* C3: on an undirected graph, in every reachable state and for all u, v,
\* has_edge(u, v) and has_edge(v, u) have the same outcome, and when both
\* edges are defined get_edge_weight(u, v) equals get_edge_weight(v, u).
C3_UndirectedSymmetry ==
  ~g.directed =>
    \A u \in Vertex, v \in Vertex :
      /\ has_edge(g, u, v) = has_edge(g, v, u)
      /\ (HasEdge(g, u, v) /\ HasEdge(g, v, u)) =>
           /\ get_edge_weight(g, u, v).res = "ok"
           /\ get_edge_weight(g, u, v) = get_edge_weight(g, v, u)

\* An undirected graph holds an edge between two different vertices, just
\* added by add_edge.
C3_Witness ==
  /\ ~g.directed
  /\ last.op = "add_edge" /\ last.res = "ok" /\ last.a # last.b
  /\ HasEdge(g, last.a, last.b)
  /\ get_edge_weight(g, last.b, last.a).val = last.w

\* C4: immediately after a successful remove_vertex(v) no edge triple of
\* `edges` mentions v, no key of edge_attributes has v as an endpoint, v is
\* in no get_children/get_parents result, and v re-added by add_vertex has
\* no edges.
C4_RemoveVertexCascade ==
  (last.op = "remove_vertex" /\ last.res = "ok") =>
    LET v == last.a
        readded == add_vertex(g, v).g
    IN /\ \A e \in edges(g).val : e[1] # v /\ e[2] # v
       /\ \A k \in DOMAIN g.eattr : k[1] # v /\ k[2] # v
       /\ \A x \in Vertex : /\ v \notin get_children(g, x).val
                            /\ v \notin get_parents(g, x).val
       /\ \A x \in Vertex : ~HasEdge(readded, v, x) /\ ~HasEdge(readded, x, v)

\* C5: immediately after a successful remove_vertex(v), for all remaining
\* vertices x and y, has_edge(x, y) and get_edge_weight(x, y) have the same
\* outcome as immediately before the call.
C5_RemoveVertexFrame ==
  (last.op = "remove_vertex" /\ last.res = "ok") =>
    \A x \in VertexSet(g), y \in VertexSet(g) :
      /\ has_edge(g, x, y) = has_edge(prev, x, y)
      /\ get_edge_weight(g, x, y) = get_edge_weight(prev, x, y)

\* C6: a successful add_vertex(v) of a vertex not in the graph followed at
\* once by remove_vertex(v) leaves the vertex sequence, the adjacency
\* representation and both attribute stores as they were before add_vertex.
C6_AddRemoveVertexRoundTrip ==
  [][(/\ last.op = "add_vertex" /\ last.res = "ok"
      /\ last'.op = "remove_vertex" /\ last'.a = last.a)
     => /\ last'.res = "ok"
        /\ Content(g') = Content(prev)]_vars

\* C7: add_vertex(v) of a vertex not in the graph succeeds, appends v to
\* the vertex sequence, gives v an empty attribute map, leaves v without
\* edges, lets has_edge, add_edge, get_children and get_parents involving v
\* complete without an index failure, and leaves existing edges unchanged.
C7_AddVertexGrowsStorage ==
  (last.op = "add_vertex" /\ ~has_vertex(prev, last.a)) =>
    LET v == last.a IN
    /\ last.res = "ok"
    /\ g.vertices = Append(prev.vertices, v)
    /\ v \in DOMAIN g.vattr /\ g.vattr[v] = EmptyDict
    /\ \A x \in Vertex :
         /\ has_edge(g, v, x) = [res |-> "ok", val |-> FALSE]
         /\ has_edge(g, x, v) = [res |-> "ok", val |-> FALSE]
    /\ \A x \in VertexSet(g), w \in Weight :
         /\ add_edge(g, v, x, w).res = "ok"
         /\ add_edge(g, x, v, w).res = "ok"
    /\ get_children(g, v) = [res |-> "ok", val |-> {}]
    /\ get_parents(g, v) = [res |-> "ok", val |-> {}]
    /\ \A x \in VertexSet(prev), y \in VertexSet(prev) :
         /\ has_edge(g, x, y) = has_edge(prev, x, y)
         /\ get_edge_weight(g, x, y) = get_edge_weight(prev, x, y)

\* C8: immediately after add_edge(v1, v2, w) on two vertices of the graph,
\* get_edge_weight(v1, v2) returns w, and so does get_edge_weight(v2, v1)
\* when the graph is undirected.
C8_WeightFidelity ==
  (last.op = "add_edge" /\ has_vertex(prev, last.a) /\ has_vertex(prev, last.b)) =>
    /\ get_edge_weight(g, last.a, last.b) = [res |-> "ok", val |-> last.w]
    /\ ~g.directed =>
         get_edge_weight(g, last.b, last.a) = [res |-> "ok", val |-> last.w]

\* C9 (as claimed): remove_edge(v1, v2) on any pair for which has_edge is
\* false, whether or not v1 and v2 are vertices of the graph, returns
\* normally, leaves the graph unchanged, and does the same when repeated.
C9_RemoveAbsentEdgeNeverRaises ==
  (last.op = "remove_edge" /\ has_edge(prev, last.a, last.b) = [res |-> "ok", val |-> FALSE]) =>
    /\ last.res \in {"ok", "warning"}
    /\ Content(g) = Content(prev)
    /\ remove_edge(g, last.a, last.b) = Outcome(g, last.res)

\* C9 (amended): remove_edge(v1, v2) on a pair for which has_edge is false
\* leaves the graph unchanged and does the same when repeated; it returns
\* normally with a warning when v1 and v2 are both vertices of the graph,
\* and raises the unknown-vertex error when one of them is not.
C9_RemoveAbsentEdge ==
  (last.op = "remove_edge" /\ has_edge(prev, last.a, last.b) = [res |-> "ok", val |-> FALSE]) =>
    /\ last.res = IF has_vertex(prev, last.a) /\ has_vertex(prev, last.b)
                  THEN "warning" ELSE "UnknownVertex"
    /\ Content(g) = Content(prev)
    /\ remove_edge(g, last.a, last.b) = Outcome(g, last.res)

\* remove_edge has just been called on two vertices of the graph that had
\* no edge between them, in a graph that holds another edge.
C9_Witness ==
  /\ last.op = "remove_edge" /\ last.res = "warning"
  /\ has_vertex(prev, last.a) /\ has_vertex(prev, last.b)
  /\ \E x \in Vertex, y \in Vertex : HasEdge(g, x, y)

\* C10: a graph cloned from g has g's directedness, vertex sequence, edges
\* with their weights, and vertex and edge attributes under the same keys.
C10_CloneEqualsSource ==
  (last.op = "clone" /\ last.res = "ok") =>
    /\ c.directed = g.directed
    /\ c.vertices = g.vertices
    /\ edges(c) = edges(g)
    /\ c.vattr = g.vattr
    /\ c.eattr = g.eattr

\* The names of the mutating calls on g.
MutatorNames ==
  {"add_vertex", "remove_vertex", "add_edge", "remove_edge",
   "set_vertex_attribute", "set_edge_attribute"}

TriplesOf(found, u, v) ==
  {t \in found : <<t[1], t[2]>> \in {<<u, v>>, <<v, u>>}}

\* C12: on an undirected graph, in every reachable state, `edges` returns
\* exactly one triple per logical edge: for every pair {u, v} with
\* has_edge(u, v) exactly one of (u, v, w), (v, u, w), carrying the edge's
\* weight, and no triple for a pair without an edge.
C12_EdgesOncePerEdge ==
  ~g.directed =>
    LET E == edges(g) IN
    /\ E.res = "ok"
    /\ \A u \in Vertex, v \in Vertex :
         IF HasEdge(g, u, v)
         THEN /\ Cardinality(TriplesOf(E.val, u, v)) = 1
              /\ \A t \in TriplesOf(E.val, u, v) :
                   get_edge_weight(g, u, v) = [res |-> "ok", val |-> t[3]]
         ELSE TriplesOf(E.val, u, v) = {}

\* G is the undirected graph on [1, 2, 3, 4] after add_edge(1, 2),
\* add_edge(2, 3) and add_edge(3, 1) and nothing else.
Triangle(G) ==
  /\ ~G.directed
  /\ G.vertices = <<1, 2, 3, 4>>
  /\ DOMAIN G.eattr = {<<1, 2>>, <<2, 3>>, <<3, 1>>}

\* C13: on an undirected graph with vertices [1, 2, 3, 4], after
\* add_edge(1, 2), add_edge(2, 3), add_edge(3, 1): get_children(1) is {2, 3}
\* and `edges` has three elements; after remove_vertex(2) on that graph
\* `edges` is exactly {(3, 1, 1.0)}.
C13_TriangleExample ==
  /\ (nops = 3 /\ Triangle(g)) =>
       /\ get_children(g, 1) = [res |-> "ok", val |-> {2, 3}]
       /\ edges(g).res = "ok" /\ Cardinality(edges(g).val) = 3
  /\ (nops = 4 /\ Triangle(prev) /\ last.op = "remove_vertex" /\ last.a = 2) =>
       edges(g) = [res |-> "ok", val |-> {<<3, 1, DefaultWeight>>}]

\* C14: in every reachable state, for every vertex v of the graph,
\* get_children(v) is {u : has_edge(v, u)} and get_parents(v) is
\* {u : has_edge(u, v)}; on an undirected graph the two are equal; on a
\* directed graph after only add_edge(1, 2, w), get_children(1) is {2},
\* get_parents(1) is empty and get_parents(2) is {1}.
C14_ChildrenParents ==
  /\ \A v \in VertexSet(g) :
       /\ get_children(g, v) =
            [res |-> "ok", val |-> {u \in Vertex : HasEdge(g, v, u)}]
       /\ get_parents(g, v) =
            [res |-> "ok", val |-> {u \in Vertex : HasEdge(g, u, v)}]
       /\ ~g.directed => get_children(g, v) = get_parents(g, v)
  /\ (/\ g.directed /\ nops = 1
      /\ last.op = "add_edge" /\ last.a = 1 /\ last.b = 2 /\ last.res = "ok") =>
       /\ get_children(g, 1) = [res |-> "ok", val |-> {2}]
       /\ get_parents(g, 1) = [res |-> "ok", val |-> {}]
       /\ get_parents(g, 2) = [res |-> "ok", val |-> {1}]

\* C15: on an undirected graph, in every reachable state, edge_attributes
\* never holds both (u, v) and (v, u) for u # v, and for every key
\* get_edge_attribute((u, v), key) and get_edge_attribute((v, u), key) have
\* the same outcome.
C15_OneKeyPerUndirectedEdge ==
  ~g.directed =>
    \A u \in Vertex, v \in Vertex :
      /\ u # v => ~(<<u, v>> \in DOMAIN g.eattr /\ <<v, u>> \in DOMAIN g.eattr)
      /\ \A key \in AttrKeys :
           get_edge_attribute(g, <<u, v>>, key) = get_edge_attribute(g, <<v, u>>, key)

\* The keys under which a lookup may name the edge (v1, v2) of G.
Orientations(G, v1, v2) ==
  IF G.directed THEN {<<v1, v2>>} ELSE {<<v1, v2>>, <<v2, v1>>}

\* C16: add_edge(v1, v2, w) on an existing edge, in either orientation on an
\* undirected graph, succeeds, overwrites the weight, and leaves the edge
\* without attributes: get_edge_attribute then fails for every key, under
\* either orientation of the lookup.
C16_ReAddResetsAttributes ==
  \A v1 \in Vertex, v2 \in Vertex, w \in Weight :
    HasEdge(g, v1, v2) =>
      LET r == add_edge(g, v1, v2, w) IN
      /\ r.res = "ok"
      /\ get_edge_weight(r.g, v1, v2) = [res |-> "ok", val |-> w]
      /\ \A edge \in Orientations(g, v1, v2), key \in AttrKeys :
           get_edge_attribute(r.g, edge, key).res # "ok"

\* C17: add_edge(v1, v2, w) with v1 or v2 not a vertex of the graph fails
\* with the unknown-vertex error and leaves the vertex sequence, the
\* adjacency and both attribute stores as they were; no edge_attributes
\* entry is created.
C17_AddEdgeUnknownVertex ==
  (/\ last.op = "add_edge"
   /\ last.a \notin VertexSet(prev) \/ last.b \notin VertexSet(prev)) =>
    /\ last.res = "UnknownVertex"
    /\ g = prev
    /\ <<last.a, last.b>> \in DOMAIN g.eattr => <<last.a, last.b>> \in DOMAIN prev.eattr

\* add_edge has just been refused for an edge with one endpoint in the
\* graph and the other missing.
C17_Witness ==
  /\ last.op = "add_edge" /\ last.res = "UnknownVertex"
  /\ last.a \in VertexSet(prev) /\ last.b \notin VertexSet(prev)
  /\ <<last.a, last.b>> \notin DOMAIN g.eattr

\* C18: in every reachable state has_edge(v1, v2) does not fail: it returns
\* False when v1 or v2 is not a vertex of the graph, and otherwise True
\* exactly when the pair has a defined adjacency entry.
C18_HasEdgeTotal ==
  \A v1 \in Vertex, v2 \in Vertex :
    LET r == has_edge(g, v1, v2)
        u == ListIndex(g.vertices, v1)
        v == ListIndex(g.vertices, v2)
    IN /\ r.res = "ok"
       /\ IF u = 0 \/ v = 0 THEN r.val = FALSE
          ELSE r.val = (InBounds(Storage(g), u, v) /\ Storage(g)[u][v] # None)

\* C19: the vertex sequence holds no vertex twice, in every state reachable
\* from a construction with any initial vertex list; add_vertex(v) on a
\* vertex already present fails with the duplicate-vertex error and does not
\* append v.
C19_NoDuplicateVertices ==
  /\ \A i \in 1..Len(g.vertices), j \in 1..Len(g.vertices) :
       g.vertices[i] = g.vertices[j] => i = j
  /\ (last.op = "add_vertex" /\ last.a \in VertexSet(prev)) =>
       /\ last.res = "DuplicateVertex"
       /\ g.vertices = prev.vertices

\* The class the factory instantiates for a value of `static`.
BackendOf(static) == IF static THEN "static" ELSE "dynamic"

\* C20: graph(static, graph_, directed, vertices) returns a StaticGraph when
\* static is true and a DynamicGraph otherwise; when graph_ is given the
\* result has the directedness and the vertex sequence of graph_, and the
\* `directed` and `vertices` arguments have no effect.
C20_FactoryBackendAndSource ==
  /\ last.op = "init" =>
       \A static \in BOOLEAN, directed \in BOOLEAN, vertices \in InitVertices :
         LET r == graph(static, NoGraph, directed, vertices) IN
         /\ r.res = "ok" /\ r.g.backend = BackendOf(static)
         /\ r.g.directed = directed /\ r.g.vertices = vertices
  /\ last.op = "clone" =>
       \A static \in BOOLEAN :
         LET r == graph(static, g, FALSE, <<>>) IN
         /\ \A directed \in BOOLEAN, vertices \in InitVertices :
              graph(static, g, directed, vertices) = r
         /\ r.res = "ok" =>
              /\ r.g.backend = BackendOf(static)
              /\ r.g.directed = g.directed
              /\ r.g.vertices = g.vertices
  /\ (last.op = "clone" /\ last.res = "ok") =>
       /\ c.directed = g.directed
       /\ c.vertices = g.vertices

\* A directed graph with vertices has just been cloned into the other
\* backend by a call that passed directed=False and no vertices.
C20_Witness ==
  /\ last.op = "clone" /\ last.res = "ok"
  /\ g.directed /\ Len(g.vertices) > 0
  /\ c.backend # g.backend /\ c.directed /\ c.vertices = g.vertices

\* C21: self-loops are permitted: for a vertex v of the graph,
\* add_edge(v, v, w) succeeds, after which has_edge(v, v) is true,
\* get_edge_weight(v, v) is w, v is among get_children(v) and
\* get_parents(v), `edges` holds the triple (v, v, w) exactly once, and
\* remove_edge(v, v) removes the edge.
C21_SelfLoops ==
  (/\ last.op = "add_edge" /\ last.a = last.b
   /\ last.a \in VertexSet(prev)) =>
    LET v == last.a
        removed == remove_edge(g, v, v)
    IN /\ last.res = "ok"
       /\ HasEdge(g, v, v)
       /\ get_edge_weight(g, v, v) = [res |-> "ok", val |-> last.w]
       /\ get_children(g, v).res = "ok" /\ v \in get_children(g, v).val
       /\ get_parents(g, v).res = "ok" /\ v \in get_parents(g, v).val
       /\ edges(g).res = "ok"
       /\ TriplesOf(edges(g).val, v, v) = {<<v, v, last.w>>}
       /\ removed.res = "ok"
       /\ has_edge(removed.g, v, v) = [res |-> "ok", val |-> FALSE]

\* C22: add_vertex(v) on a vertex already in the graph fails and leaves the
\* graph as it was: vertex sequence, adjacency and both attribute stores
\* are unchanged, and get_vertex_attribute(v, key) answers as before the
\* call for every key.
C22_FailedAddVertexFrame ==
  (last.op = "add_vertex" /\ last.a \in VertexSet(prev)) =>
    /\ last.res = "DuplicateVertex"
    /\ Content(g) = Content(prev)
    /\ \A key \in AttrKeys :
         get_vertex_attribute(g, last.a, key) = get_vertex_attribute(prev, last.a, key)

\* M has n rows of n entries each.
IsSquare(M, n) == Len(M) = n /\ \A i \in 1..Len(M) : Len(M[i]) = n

\* C23: in every reachable state the adjacency storage (the matrix and its
\* view in StaticGraph, the list of rows in DynamicGraph) has exactly
\* len(vertices) rows and len(vertices) columns, so the position of every
\* vertex is a valid index of the storage that calls read and write.
C23_StorageMatchesVertices ==
  LET n == Len(g.vertices) IN
  /\ IsSquare(g.adj, n)
  /\ g.backend = "static" => IsSquare(g.view, n)
  /\ \A u \in 1..n, v \in 1..n : InBounds(Storage(g), u, v)

\* C24: copying a graph through __copy__ succeeds and returns a graph of
\* the same backend with the same directedness, vertex sequence, edges with
\* their weights, and the same attributes on every vertex and edge.
C24_CopyEqualsOriginal ==
  last.op = "copy" =>
    /\ last.res = "ok"
    /\ c.backend = g.backend
    /\ c.directed = g.directed
    /\ c.vertices = g.vertices
    /\ edges(c) = edges(g)
    /\ \A v \in VertexSet(g), key \in AttrKeys :
         get_vertex_attribute(c, v, key) = get_vertex_attribute(g, v, key)
    /\ \A t \in edges(g).val, key \in AttrKeys :
         get_edge_attribute(c, <<t[1], t[2]>>, key) = get_edge_attribute(g, <<t[1], t[2]>>, key)

\* From graph G0 to graph G1 nothing but the entry (v1, v2), and (v2, v1)
\* on an undirected graph, has changed: every other ordered pair of
\* vertices has the has_edge and get_edge_weight outcomes it had, and the
\* vertex sequence and vertex_attributes are the same.
FrameKept(G0, G1, v1, v2) ==
  /\ \A u \in VertexSet(G0), v \in VertexSet(G0) :
       <<u, v>> \notin Orientations(G0, v1, v2) =>
         /\ has_edge(G1, u, v) = has_edge(G0, u, v)
         /\ get_edge_weight(G1, u, v) = get_edge_weight(G0, u, v)
  /\ G1.vertices = G0.vertices
  /\ G1.vattr = G0.vattr

\* C25: a successful add_edge(v1, v2, w) or remove_edge(v1, v2) changes only
\* the adjacency entry (v1, v2), and (v2, v1) when the graph is undirected;
\* on a directed graph the reverse pair is neither created nor cleared.
\* Checked for the call just made and, after a successful add_edge, for
\* the remove_edge of the edge just added.
C25_EdgeCallFrame ==
  /\ (last.op \in {"add_edge", "remove_edge"} /\ last.res = "ok") =>
       FrameKept(prev, g, last.a, last.b)
  /\ (last.op = "add_edge" /\ last.res = "ok") =>
       LET r == remove_edge(g, last.a, last.b) IN
       r.res = "ok" => FrameKept(g, r.g, last.a, last.b)

\* On a directed graph add_edge(v1, v2) has just succeeded while the
\* reverse edge (v2, v1) was there, and the reverse edge is still there.
C25_Witness ==
  /\ last.op = "add_edge" /\ last.res = "ok"
  /\ g.directed /\ last.a # last.b
  /\ HasEdge(prev, last.b, last.a) /\ ~HasEdge(prev, last.a, last.b)
  /\ HasEdge(g, last.b, last.a) /\ HasEdge(g, last.a, last.b)

====
